---------------------------- MODULE Spec2Model ----------------------------
(***************************************************************************)
(* Model of the Avellaneda-Stoikov market-making bot: the pricing model,   *)
(* the inventory manager, the realized-volatility estimator and the        *)
(* per-cycle orchestration of main.market_making_cycle.                    *)
(*                                                                         *)
(* Floating-point values are modelled as exact rationals, Python's None    *)
(* and IEEE NaN as two distinguished values.  A division by zero on Python *)
(* floats raises ZeroDivisionError; operations that can raise return a     *)
(* record whose field k is "raise".                                        *)
(***************************************************************************)
EXTENDS Integers, Sequences, FiniteSets, TLC

(***************************************************************************)
(* Numbers.                                                                *)
(***************************************************************************)
Abs(i) == IF i < 0 THEN -i ELSE i

RECURSIVE GCD(_, _)
GCD(a, b) == IF b = 0 THEN a ELSE GCD(b, a % b)

\* A float: the rational n/d in lowest terms, d > 0.
Rat(n, d) ==
    LET g == GCD(Abs(n), Abs(d))
        s == IF d < 0 THEN -1 ELSE 1
    IN  [k |-> "num", n |-> s * (n \div g), d |-> s * (d \div g)]

Int2R(i) == [k |-> "num", n |-> i, d |-> 1]
NaN  == [k |-> "nan",  n |-> 0, d |-> 1]
None == [k |-> "none", n |-> 0, d |-> 1]

IsNum(x)  == x.k = "num"
IsNaN(x)  == x.k = "nan"
IsNone(x) == x.k = "none"

Zero == Int2R(0)
One  == Int2R(1)

\* IEEE arithmetic on finite values and NaN: NaN is absorbing.
RNeg(a) == IF IsNaN(a) THEN NaN ELSE [k |-> "num", n |-> -a.n, d |-> a.d]

RAdd(a, b) ==
    IF IsNaN(a) \/ IsNaN(b) THEN NaN
    ELSE LET g == GCD(a.d, b.d)
         IN  Rat(a.n * (b.d \div g) + b.n * (a.d \div g), (a.d \div g) * b.d)

RSub(a, b) == RAdd(a, RNeg(b))

RMul(a, b) ==
    IF IsNaN(a) \/ IsNaN(b) THEN NaN
    ELSE LET p == Rat(a.n, b.d)
             q == Rat(b.n, a.d)
         IN  [k |-> "num", n |-> p.n * q.n, d |-> p.d * q.d]

\* a / b for b # 0 (the callers raise ZeroDivisionError on b = 0 first).
RDiv(a, b) ==
    IF IsNaN(a) \/ IsNaN(b) THEN NaN
    ELSE RMul(a, Rat(b.d, b.n))

\* Comparisons: every comparison with NaN is false.
RLt(a, b) == IsNum(a) /\ IsNum(b) /\ RSub(a, b).n < 0
RGt(a, b) == RLt(b, a)
RLe(a, b) == IsNum(a) /\ IsNum(b) /\ RSub(a, b).n <= 0
RGe(a, b) == RLe(b, a)

\* Python's builtins: max(a, b) keeps a unless b > a, min(a, b) keeps a
\* unless b < a; abs(nan) is nan.
PyMax(a, b) == IF RGt(b, a) THEN b ELSE a
PyMin(a, b) == IF RLt(b, a) THEN b ELSE a
PyAbs(a)    == IF IsNaN(a) THEN NaN ELSE [k |-> "num", n |-> Abs(a.n), d |-> a.d]

\* np.log(y): the rational approximation 2(y-1)/(y+1) of ln y (exact at 1,
\* of the sign of ln y for every y > 0); nan for y < 0.  y = 0 (-inf) does not
\* arise for the parameters of this model.
NpLog(y) ==
    IF IsNaN(y) \/ ~RGt(y, Zero) THEN NaN
    ELSE RDiv(RMul(Int2R(2), RSub(y, One)), RAdd(y, One))

Raise == [k |-> "raise"]

(***************************************************************************)
(* State.                                                                  *)
(***************************************************************************)
VARIABLES
    gamma, lambda_b, lambda_a,          \* AvellanedaStoikov parameters
    max_inventory_pct, skew_threshold,  \* InventoryManager parameters
    current_inventory, base_balance,    \* InventoryManager state
    call,                               \* the last direct call and its result
    pc,                                 \* the step main() is about to take
    market_data, volatility,            \* locals of market_making_cycle
    balances, ticker, mid_price,
    inventory_pct, model_prices, adjusted_spreads, final_prices,
    quote_prices,                       \* the prices handed to update_orders
    calls,                              \* the collaborators called in this cycle
    result,                             \* how the cycle ended
    exchange_orders,                    \* the orders resting at the exchange
    open_orders, next_id,               \* OrderManager.open_orders; ids issued
    exchange_balances,                  \* MockExchange.balances
    shutdown                            \* main()'s steps since a user interrupt

imConfig == <<max_inventory_pct, skew_threshold>>
asConfig == <<gamma, lambda_b, lambda_a>>
imState  == <<current_inventory, base_balance>>
locals   == <<market_data, volatility, balances, ticker, mid_price,
              inventory_pct, model_prices, adjusted_spreads, final_prices>>
omState  == <<exchange_orders, open_orders, next_id>>
cycle    == <<pc, locals, quote_prices, calls, result, omState>>

(***************************************************************************)
(* risk/inventory_manager.py                                               *)
(***************************************************************************)
\* portfolio_value and the stored inventory of update_inventory.
InventoryOf_Share(base, quote, mid) ==
    LET base_value      == RMul(base, mid)
        portfolio_value == RAdd(base_value, quote)
    IN  IF RGt(portfolio_value, Zero)
        THEN RDiv(base_value, portfolio_value)
        ELSE Zero

InventoryOf_Unscaled(base, quote, mid) ==
    LET base_value      == RMul(base, mid)
        portfolio_value == RAdd(base_value, quote)
    IN  IF RGt(portfolio_value, Zero)
        THEN RSub(RMul(Int2R(2), base_value), One)
        ELSE Zero

InventoryOf(base, quote, mid) ==
    LET base_value      == RMul(base, mid)
        portfolio_value == RAdd(base_value, quote)
    IN  IF RGt(portfolio_value, Zero)
        THEN RSub(RDiv(RMul(Int2R(2), base_value), portfolio_value), One)
        ELSE Zero

\* `if abs(inventory_pct) <= self.skew_threshold`: no adjustment is needed.
Balanced_NoAbs(inv, thr) == RGe(inv, Zero) /\ RLe(inv, thr)

Balanced(inv, thr) == RLe(PyAbs(inv), thr)

\* adjustment_factor of adjust_spreads, for an inventory beyond the threshold.
\* The caller has excluded max_inventory_pct = skew_threshold.
AdjustmentFactor_NoCap(inv, maxPct, thr) ==
    PyMax(Zero, RDiv(RSub(PyAbs(inv), thr), RSub(maxPct, thr)))

AdjustmentFactor(inv, maxPct, thr) ==
    PyMin(PyMax(Zero, RDiv(RSub(PyAbs(inv), thr), RSub(maxPct, thr))),
          Rat(8, 10))

\* The multipliers: (1 + adjustment_factor * 0.5) and max(0.2, 1 - adjustment_factor).
Widen_Full(f) == RAdd(One, f)

Widen(f) == RAdd(One, RMul(f, Rat(1, 2)))

Narrow(f) == PyMax(Rat(2, 10), RSub(One, f))

\* The directional adjustment: <<adjusted_bid, adjusted_ask>> before the floor.
Directional_Swapped(bid_spread, ask_spread, inv, f) ==
    IF RGt(inv, Zero)
    THEN <<RMul(bid_spread, Narrow(f)), RMul(ask_spread, Widen(f))>>
    ELSE <<RMul(bid_spread, Widen(f)), RMul(ask_spread, Narrow(f))>>

Directional(bid_spread, ask_spread, inv, f) ==
    IF RGt(inv, Zero)
    THEN <<RMul(bid_spread, Widen(f)), RMul(ask_spread, Narrow(f))>>
    ELSE <<RMul(bid_spread, Narrow(f)), RMul(ask_spread, Widen(f))>>

\* `if inventory_pct is None: inventory_pct = self.current_inventory`.
InventoryArg_Ignored(inv_pct, cur) ==
    IF IsNone(inv_pct) THEN Zero ELSE inv_pct

InventoryArg(inv_pct, cur) ==
    IF IsNone(inv_pct) THEN cur ELSE inv_pct

\* adjust_spreads(base_spread, inventory_pct).  The result also reports the
\* inventory tested, the factor applied (None when none is) and the branch
\* taken: "unchanged", "base_heavy", "quote_heavy" or "ZeroDivisionError".
adjust_spreads(bid_spread, ask_spread, inv_pct, cur, maxPct, thr) ==
    LET inv == InventoryArg(inv_pct, cur)
    IN  IF Balanced(inv, thr)
        THEN [k |-> "ok", bid |-> bid_spread, ask |-> ask_spread,
              factor |-> None, branch |-> "unchanged", inv |-> inv]
        ELSE IF RSub(maxPct, thr) = Zero
        THEN [k |-> "raise", bid |-> None, ask |-> None,
              factor |-> None, branch |-> "ZeroDivisionError", inv |-> inv]
        ELSE
          LET f          == AdjustmentFactor(inv, maxPct, thr)
              adj        == Directional(bid_spread, ask_spread, inv, f)
              min_spread == RMul(PyMin(bid_spread, ask_spread), Rat(1, 10))
          IN  [k |-> "ok",
               bid |-> PyMax(adj[1], min_spread),
               ask |-> PyMax(adj[2], min_spread),
               factor |-> f,
               branch |-> IF RGt(inv, Zero) THEN "base_heavy" ELSE "quote_heavy",
               inv |-> inv]

\* self.current_inventory after adjust_spreads(base_spread, inventory_pct):
\* the method reads it (when the argument is omitted) and never assigns it.
StoredAfterAdjust_Overwrites(inv_pct, cur) ==
    IF IsNone(inv_pct) THEN cur ELSE inv_pct

StoredAfterAdjust(inv_pct, cur) == cur

\* is_inventory_balanced(): abs(current_inventory) <= max_inventory_pct
is_inventory_balanced(cur, maxPct) == RLe(PyAbs(cur), maxPct)

\* get_rebalance_amount(mid_price): (None, 0) within the threshold, else the
\* side and the excess share of base_balance (mid_price is not used).
get_rebalance_amount(cur, base, thr) ==
    IF RLe(PyAbs(cur), thr)
    THEN [side |-> "None", amount |-> Zero]
    ELSE [side   |-> IF RGt(cur, Zero) THEN "sell" ELSE "buy",
          amount |-> RMul(RSub(PyAbs(cur), thr), base)]

(***************************************************************************)
(* models/avellaneda_stoikov.py.  The volatility enters only squared       *)
(* (volatility ** 2), so a volatility is carried as its square.            *)
(***************************************************************************)
\* (1 / gamma) * np.log(1 + gamma / lambda), for gamma # 0 and lambda # 0.
FirstTerm(g, lam) ==
    RMul(RDiv(One, g), NpLog(RAdd(One, RDiv(g, lam))))

calculate_bid_spread_Minus(g, lam_b, vol_sq, inventory) ==
    LET q1 == RAdd(inventory, One)
    IN  RSub(FirstTerm(g, lam_b),
             RMul(RMul(RMul(Rat(1, 2), g), vol_sq), RMul(q1, q1)))

calculate_bid_spread(g, lam_b, vol_sq, inventory) ==
    LET q1 == RAdd(inventory, One)
    IN  RAdd(FirstTerm(g, lam_b),
             RMul(RMul(RMul(Rat(1, 2), g), vol_sq), RMul(q1, q1)))

calculate_ask_spread_AsBid(g, lam_a, vol_sq, inventory) ==
    LET q1 == RAdd(inventory, One)
    IN  RAdd(FirstTerm(g, lam_a),
             RMul(RMul(RMul(Rat(1, 2), g), vol_sq), RMul(q1, q1)))

calculate_ask_spread(g, lam_a, vol_sq, inventory) ==
    LET q1 == RSub(inventory, One)
    IN  RAdd(FirstTerm(g, lam_a),
             RMul(RMul(RMul(Rat(1, 2), g), vol_sq), RMul(q1, q1)))

\* calculate_spreads: (bid_price, ask_price), or ZeroDivisionError.
calculate_spreads(g, lam_b, lam_a, mid, vol_sq, inventory) ==
    IF g = Zero \/ lam_b = Zero \/ lam_a = Zero
    THEN [k |-> "raise", bid |-> None, ask |-> None]
    ELSE [k |-> "ok",
          bid |-> RSub(mid, calculate_bid_spread(g, lam_b, vol_sq, inventory)),
          ask |-> RAdd(mid, calculate_ask_spread(g, lam_a, vol_sq, inventory))]

(***************************************************************************)
(* utils/volatility.py: get_realized_volatility(market_data, window=20).   *)
(* A snapshot is a sequence of bars [close, volume], oldest first.         *)
(***************************************************************************)
VolWindow == 20

\* market_data['close'] / market_data['close'].shift(1), then np.log: the
\* first row has no predecessor and is nan.
LogReturn(bars, i) ==
    IF i = 1 THEN NaN ELSE NpLog(RDiv(bars[i].close, bars[i - 1].close))

SquaredReturn(bars, i) == LET r == LogReturn(bars, i) IN RMul(r, r)

RECURSIVE SumSquared(_, _, _)
SumSquared(bars, lo, hi) ==
    IF lo > hi THEN Zero
    ELSE RAdd(SquaredReturn(bars, lo), SumSquared(bars, lo + 1, hi))

\* .rolling(window=window).sum().iloc[-1]: nan unless the last `window` rows
\* exist and all hold a value.
RollingSumLast(bars, window) ==
    IF Len(bars) < window THEN NaN
    ELSE SumSquared(bars, Len(bars) - window + 1, Len(bars))

\* The columns the call adds to the DataFrame it is given.
VolatilityColumns == {"log_returns", "squared_returns"}

\* The value returned, as its square: float(np.sqrt(realized_variance) * 1)
\* (TIMEFRAME is not '1d', so the annualization factor is 1).  Never None.
\* On an empty frame .iloc[-1] raises IndexError.
get_realized_volatility(bars, window) ==
    IF Len(bars) = 0 THEN [k |-> "raise", vol |-> None]
    ELSE [k |-> "ok", vol |-> RollingSumLast(bars, window)]

(***************************************************************************)
(* risk/circuit_breakers.py                                                *)
(***************************************************************************)
PriceChangeThreshold == Rat(2, 10)     \* CIRCUIT_BREAKER_PCT
PegValue_Market == Int2R(10000)

PegValue       == One
DepegThreshold == Rat(5, 100)
ZScoreThreshold == Int2R(3)
FlashWindow == 5
MinBars == 10

Closes(bars)  == [i \in 1..Len(bars) |-> bars[i].close]
Volumes(bars) == [i \in 1..Len(bars) |-> bars[i].volume]

check_flash_crash_OverCurrent(prices, window) ==
    IF Len(prices) < window THEN FALSE
    ELSE LET start_price   == prices[Len(prices) - window + 1]
             current_price == prices[Len(prices)]
             percent_change == RDiv(RSub(current_price, start_price), current_price)
         IN  RLt(percent_change, RNeg(PriceChangeThreshold))

check_flash_crash_NonStrict(prices, window) ==
    IF Len(prices) < window THEN FALSE
    ELSE LET start_price   == prices[Len(prices) - window + 1]
             current_price == prices[Len(prices)]
             percent_change == RDiv(RSub(current_price, start_price), start_price)
         IN  RLe(percent_change, RNeg(PriceChangeThreshold))

check_flash_crash(prices, window) ==
    IF Len(prices) < window THEN FALSE
    ELSE LET start_price   == prices[Len(prices) - window + 1]
             current_price == prices[Len(prices)]
             percent_change == RDiv(RSub(current_price, start_price), start_price)
         IN  RLt(percent_change, RNeg(PriceChangeThreshold))

check_stablecoin_depeg_NonStrict(price, peg_value, threshold) ==
    RGe(RDiv(PyAbs(RSub(price, peg_value)), peg_value), threshold)

check_stablecoin_depeg(price, peg_value, threshold) ==
    RGt(RDiv(PyAbs(RSub(price, peg_value)), peg_value), threshold)

RECURSIVE SumSeq(_, _)
SumSeq(xs, n) == IF n = 0 THEN Zero ELSE RAdd(xs[n], SumSeq(xs, n - 1))

\* np.mean and the square of np.std (population variance) of xs[1..n].
Mean(xs, n) == RDiv(SumSeq(xs, n), Int2R(n))
Variance(xs, n) ==
    LET m == Mean(xs, n)
    IN  Mean([i \in 1..n |-> RMul(RSub(xs[i], m), RSub(xs[i], m))], n)

\* (current_volume - mean_volume) / std_volume > z_score_threshold, for a
\* std_volume > 0 given by its square.
ZScoreAbove(current, mean, variance, z) ==
    /\ RGt(current, mean)
    /\ RGt(RMul(RSub(current, mean), RSub(current, mean)),
           RMul(RMul(z, z), variance))

check_abnormal_volume_TwoSided(volumes, z) ==
    IF Len(volumes) < MinBars THEN FALSE
    ELSE LET n == Len(volumes) - 1
             d == RSub(volumes[n + 1], Mean(volumes, n))
         IN  IF Variance(volumes, n) = Zero THEN FALSE
             ELSE RGt(RMul(d, d), RMul(RMul(z, z), Variance(volumes, n)))

check_abnormal_volume(volumes, z) ==
    IF Len(volumes) < MinBars THEN FALSE
    ELSE LET n == Len(volumes) - 1
         IN  IF Variance(volumes, n) = Zero THEN FALSE
             ELSE ZScoreAbove(volumes[n + 1], Mean(volumes, n),
                              Variance(volumes, n), z)

\* check_all_circuit_breakers(recent_data), recent_data None or a DataFrame.
check_all_circuit_breakers_NoDepeg(data) ==
    IF data.k = "none" \/ Len(data.bars) < MinBars THEN FALSE
    ELSE \/ check_flash_crash(Closes(data.bars), FlashWindow)
         \/ check_abnormal_volume(Volumes(data.bars), ZScoreThreshold)

check_all_circuit_breakers(data) ==
    IF data.k = "none" \/ Len(data.bars) < MinBars THEN FALSE
    ELSE \/ check_flash_crash(Closes(data.bars), FlashWindow)
         \/ check_stablecoin_depeg(data.bars[Len(data.bars)].close,
                                   PegValue, DepegThreshold)
         \/ check_abnormal_volume(Volumes(data.bars), ZScoreThreshold)

(***************************************************************************)
(* trading/order_manager.py.  The exchange holds the resting orders as a   *)
(* list [id, side, price] in placement order; any request to it may fail   *)
(* (raise), which the flags of the operators below decide.                 *)
(***************************************************************************)
PriceThreshold == Rat(5, 10000)

OrderIds(orders) == { orders[i].id : i \in 1..Len(orders) }

RemoveOrder(orders, id) == SelectSeq(orders, LAMBDA o : o.id # id)

\* The index of the last order of `side` in the list (0: none): the loop of
\* update_orders keeps the last one it sees.
LastOf(orders, side) ==
    LET idx == { i \in 1..Len(orders) : orders[i].side = side }
    IN  IF idx = {} THEN 0 ELSE CHOOSE i \in idx : \A j \in idx : j <= i

\* abs(order['price'] - price) / order['price'] < price_threshold, for
\* order['price'] # 0 (stated without the division).
PriceDiffBelow_Signed(old, new, thr) ==
    IF RGt(old, Zero) THEN RLt(RSub(old, new), RMul(thr, old))
    ELSE RLt(old, Zero) /\ IsNum(new)

PriceDiffBelow(old, new, thr) ==
    IF RGt(old, Zero) THEN RLt(PyAbs(RSub(old, new)), RMul(thr, old))
    ELSE RLt(old, Zero) /\ IsNum(new)

\* place_limit_order(side, price): the exchange's answer is tracked under its
\* id and returned; an exception of the request is caught, None returned.
place_limit_order(orders, tracked, nid, side, price, fails) ==
    LET order == [id |-> nid, side |-> side, price |-> price]
    IN  IF fails
        THEN [orders |-> orders, tracked |-> tracked, next_id |-> nid,
              ret |-> None]
        ELSE [orders |-> Append(orders, order), tracked |-> tracked \cup {nid},
              next_id |-> nid + 1, ret |-> order]

\* cancel_order(order_id): True once the exchange has cancelled the order,
\* False when the request raised (as it does for an order that is not open).
cancel_order(orders, tracked, id, fails) ==
    IF fails \/ id \notin OrderIds(orders)
    THEN [orders |-> orders, tracked |-> tracked, ret |-> FALSE]
    ELSE [orders |-> RemoveOrder(orders, id), tracked |-> tracked \ {id},
          ret |-> TRUE]

\* cancel_all_orders(): fetch_fails is the failure of fetch_open_orders,
\* fail_at the position of the first cancel request that fails
\* (Len(orders) + 1: none does).  Every exception is caught and 0 returned.
cancel_all_orders(orders, tracked, fetch_fails, fail_at) ==
    IF fetch_fails
    THEN [orders |-> orders, tracked |-> tracked, ret |-> 0, cancelled |-> 0]
    ELSE LET done == SubSeq(orders, 1, fail_at - 1)
         IN  [orders    |-> SubSeq(orders, fail_at, Len(orders)),
              tracked   |-> tracked \ OrderIds(done),
              ret       |-> IF fail_at <= Len(orders) THEN 0 ELSE Len(orders),
              cancelled |-> Len(done)]

\* update_orders(bid_price, ask_price) once fetch_open_orders has answered:
\* cb, ca: the cancel request of the bid / ask order fails; pb, pa: the
\* placement of the new bid / ask order fails.
update_orders(orders, tracked, nid, bid_price, ask_price, cb, ca, pb, pa) ==
    LET bi == LastOf(orders, "buy")
        ai == LastOf(orders, "sell")
        update_bid == ~(bi # 0 /\ PriceDiffBelow(orders[bi].price, bid_price, PriceThreshold))
        update_ask == ~(ai # 0 /\ PriceDiffBelow(orders[ai].price, ask_price, PriceThreshold))
        cancel_bid == update_bid /\ bi # 0
        cancel_ask == update_ask /\ ai # 0
        gone == (IF cancel_bid /\ ~cb THEN {orders[bi].id} ELSE {})
                  \cup (IF cancel_ask /\ ~ca THEN {orders[ai].id} ELSE {})
        o1 == SelectSeq(orders, LAMBDA o : o.id \notin gone)
        place_bid == bi = 0 \/ cancel_bid
        place_ask == ai = 0 \/ cancel_ask
        new_bid == [id |-> nid, side |-> "buy", price |-> bid_price]
        o2 == IF place_bid /\ ~pb THEN Append(o1, new_bid) ELSE o1
        n2 == IF place_bid /\ ~pb THEN nid + 1 ELSE nid
        new_ask == [id |-> n2, side |-> "sell", price |-> ask_price]
        o3 == IF place_ask /\ ~pa THEN Append(o2, new_ask) ELSE o2
        n3 == IF place_ask /\ ~pa THEN n2 + 1 ELSE n2
    IN  [orders  |-> o3,
         tracked |-> (tracked \ gone) \cup { i \in nid..(n3 - 1) : TRUE },
         next_id |-> n3,
         kept_bid |-> ~place_bid, kept_ask |-> ~place_ask,
         cancelled |-> gone,
         requests |->
           (IF cancel_bid THEN <<[req |-> "cancel", id |-> orders[bi].id]>> ELSE <<>>)
           \o (IF cancel_ask THEN <<[req |-> "cancel", id |-> orders[ai].id]>> ELSE <<>>)
           \o (IF place_bid THEN <<[req |-> "create", order |-> new_bid]>> ELSE <<>>)
           \o (IF place_ask THEN <<[req |-> "create", order |-> new_ask]>> ELSE <<>>),
         bid_order |-> IF ~place_bid THEN orders[bi]
                       ELSE IF pb THEN None ELSE new_bid,
         ask_order |-> IF ~place_ask THEN orders[ai]
                       ELSE IF pa THEN None ELSE new_ask]

\* A resting order priced 0 makes the price comparison of update_orders raise
\* ZeroDivisionError before any request is sent.
UpdateOrdersDividesByZero(orders) ==
    LET bi == LastOf(orders, "buy")
        ai == LastOf(orders, "sell")
    IN  \/ bi # 0 /\ orders[bi].price = Zero
        \/ ai # 0 /\ orders[ai].price = Zero

(***************************************************************************)
(* tests/mocks/MockExchange.py: the paper-trading exchange.  balances maps *)
(* a currency ("base", "quote" of the symbol) to its free, used and total  *)
(* amounts; orders holds the open orders [id, side, price, amount] in the  *)
(* order they were created.                                                *)
(***************************************************************************)
MakerFee == Rat(2, 10000)

Funds(free, used, total) == [free |-> free, used |-> used, total |-> total]

\* The balances paper_trader.py starts the exchange with.
PaperBalances ==
    [base  |-> Funds(Int2R(1000), Zero, Int2R(1000)),
     quote |-> Funds(Int2R(10000), Zero, Int2R(10000))]

\* _execute_order(order): the balances after the fill, fee included.
execute_order(bal, order) ==
    LET cost       == RMul(order.amount, order.price)
        fee_amount == RMul(cost, MakerFee)
    IN  IF order.side = "buy"
        THEN [base  |-> Funds(RAdd(bal.base.free, order.amount),
                              bal.base.used,
                              RAdd(bal.base.total, order.amount)),
              quote |-> Funds(bal.quote.free,
                              RSub(bal.quote.used, cost),
                              RSub(bal.quote.total, RAdd(cost, fee_amount)))]
        ELSE [base  |-> Funds(bal.base.free,
                              RSub(bal.base.used, order.amount),
                              RSub(bal.base.total, order.amount)),
              quote |-> Funds(RAdd(bal.quote.free, RSub(cost, fee_amount)),
                              bal.quote.used,
                              RAdd(bal.quote.total, RSub(cost, fee_amount)))]

\* `price` crosses the order: a buy at or above it, a sell at or below it.
Crossed(order, price) ==
    \/ order.side = "buy" /\ RLe(price, order.price)
    \/ order.side = "sell" /\ RGe(price, order.price)

\* _process_fills() once _update_price() has drawn `price`: the crossed
\* orders are executed in the order of the dict and then removed.
RECURSIVE FillAll(_, _, _)
FillAll(bal, orders, price) ==
    IF orders = <<>> THEN bal
    ELSE FillAll(IF Crossed(Head(orders), price)
                 THEN execute_order(bal, Head(orders)) ELSE bal,
                 Tail(orders), price)

process_fills(bal, orders, price) ==
    [balances |-> FillAll(bal, orders, price),
     orders   |-> SelectSeq(orders, LAMBDA o : ~Crossed(o, price))]

\* create_limit_order(symbol, side, amount, price), `drawn` being the price
\* its _process_fills() draws first.
create_limit_order(bal, orders, nid, side, amount, price, drawn) ==
    LET f     == process_fills(bal, orders, drawn)
        b     == f.balances
        cost  == RMul(amount, price)
        order == [id |-> nid, side |-> side, price |-> price, amount |-> amount]
    IN  IF side = "buy" /\ RLt(b.quote.free, cost)
        THEN [k |-> "raise", balances |-> b, orders |-> f.orders, next_id |-> nid]
        ELSE IF side = "sell" /\ RLt(b.base.free, amount)
        THEN [k |-> "raise", balances |-> b, orders |-> f.orders, next_id |-> nid]
        ELSE [k |-> "ok",
              balances |->
                IF side = "buy"
                THEN [b EXCEPT !.quote = Funds(RSub(b.quote.free, cost),
                                               RAdd(b.quote.used, cost),
                                               b.quote.total)]
                ELSE [b EXCEPT !.base = Funds(RSub(b.base.free, amount),
                                              RAdd(b.base.used, amount),
                                              b.base.total)],
              orders |-> Append(f.orders, order),
              next_id |-> nid + 1]

\* MockExchange.cancel_order(order_id): the reserved funds are returned.
mock_cancel_order(bal, orders, id) ==
    IF id \notin OrderIds(orders)
    THEN [k |-> "raise", balances |-> bal, orders |-> orders]
    ELSE LET order == CHOOSE o \in { orders[i] : i \in 1..Len(orders) } : o.id = id
             cost  == RMul(order.amount, order.price)
         IN  [k |-> "ok",
              balances |->
                IF order.side = "buy"
                THEN [bal EXCEPT !.quote = Funds(RAdd(bal.quote.free, cost),
                                                 RSub(bal.quote.used, cost),
                                                 bal.quote.total)]
                ELSE [bal EXCEPT !.base = Funds(RAdd(bal.base.free, order.amount),
                                                RSub(bal.base.used, order.amount),
                                                bal.base.total)],
              orders |-> RemoveOrder(orders, id)]

(***************************************************************************)
(* Parameters and inputs of the model.                                     *)
(***************************************************************************)
\* <<max_inventory_pct, skew_threshold>>: the defaults of config/settings.py
\* (0.35, 0.20), those of the unit tests (0.1, 0.05), and two
\* misconfigurations (equal, inverted) that __init__ accepts.
IMConfigs == { <<Rat(7, 20), Rat(1, 5)>>, <<Rat(1, 10), Rat(1, 20)>>,
               <<Rat(1, 5), Rat(1, 5)>>,  <<Rat(1, 10), Rat(1, 5)>> }

\* <<gamma, lambda_b, lambda_a>>: the unit tests' (0.1, 1, 1), an asymmetric
\* pair of arrival rates, and gamma = 0, which __init__ accepts.
ASConfigs == { <<Rat(1, 10), One, One>>, <<One, Int2R(2), Rat(1, 2)>>,
               <<Zero, One, One>> }

\* Each component's first setting.
DefaultIM == <<Rat(7, 20), Rat(1, 5)>>
DefaultAS == <<Rat(1, 10), One, One>>

UnitBases    == { Zero, Rat(1, 2), One, Int2R(2), Int2R(3), Int2R(5) }
UnitQuotes   == { Zero, Int2R(3), Int2R(5), Int2R(100) }
UnitPrices   == { Zero, One, Int2R(2), Int2R(100) }
UnitSpreads  == { Rat(-1, 2), Zero, Rat(1, 2), Int2R(2) }
UnitInvs     == { None, Rat(-99, 100), Rat(-1, 4), Rat(-1, 5), Rat(-2, 25), Zero,
                  Rat(1, 50), Rat(1, 5), Rat(1, 4), Rat(3, 10), Rat(99, 100),
                  Int2R(3) }
UnitVolSqs   == { Zero, Rat(1, 400), One, Int2R(4) }
UnitModelInvs == { Int2R(-3), Int2R(-1), Rat(-1, 2), Zero, Rat(1, 2), One, Int2R(3) }

NoCall == [op |-> "none"]

(***************************************************************************)
(* Direct calls of the components, as the unit tests make them.            *)
(***************************************************************************)
\* InventoryManager.update_inventory(base_balance, quote_balance, mid_price)
UpdateInventoryCall ==
    \E b \in UnitBases, q \in UnitQuotes, m \in UnitPrices :
        LET inv == InventoryOf(b, q, m)
        IN  /\ call = NoCall
            /\ current_inventory' = inv
            /\ base_balance' = b
            /\ call' = [op |-> "update_inventory",
                        base |-> b, quote |-> q, mid |-> m, ret |-> inv]
            /\ UNCHANGED <<exchange_balances, shutdown, imConfig, asConfig, cycle>>

\* InventoryManager.adjust_spreads((bid_spread, ask_spread), inventory_pct)
AdjustSpreadsCall ==
    \E bs \in UnitSpreads, as \in UnitSpreads, inv \in UnitInvs :
        /\ call = NoCall
        /\ call' = [op |-> "adjust_spreads",
                    bid |-> bs, ask |-> as, inventory_pct |-> inv,
                    ret |-> adjust_spreads(bs, as, inv, current_inventory,
                                           max_inventory_pct, skew_threshold)]
        /\ current_inventory' = StoredAfterAdjust(inv, current_inventory)
        /\ UNCHANGED <<exchange_balances, shutdown, imConfig, asConfig, base_balance, cycle>>

\* InventoryManager.is_inventory_balanced()
IsInventoryBalancedCall ==
    /\ call = NoCall
    /\ call' = [op |-> "is_inventory_balanced",
                ret |-> is_inventory_balanced(current_inventory,
                                              max_inventory_pct)]
    /\ UNCHANGED <<exchange_balances, shutdown, imConfig, asConfig, imState, cycle>>

\* InventoryManager.get_rebalance_amount(mid_price)
GetRebalanceAmountCall ==
    \E m \in UnitPrices :
        /\ call = NoCall
        /\ call' = [op |-> "get_rebalance_amount", mid |-> m,
                    ret |-> get_rebalance_amount(current_inventory,
                                                 base_balance, skew_threshold)]
        /\ UNCHANGED <<exchange_balances, shutdown, imConfig, asConfig, imState, cycle>>

\* AvellanedaStoikov.calculate_bid_spread(volatility, inventory) and
\* calculate_ask_spread(volatility, inventory), called one after the other.
CalculateBidAskSpreadCall ==
    \E v \in UnitVolSqs, inv \in UnitModelInvs :
        /\ call = NoCall
        /\ call' = [op |-> "calculate_bid_ask_spread",
                    vol_sq |-> v, inventory |-> inv,
                    ret |-> IF gamma = Zero \/ lambda_b = Zero \/ lambda_a = Zero
                            THEN [k |-> "raise", bid |-> None, ask |-> None]
                            ELSE [k |-> "ok",
                                  bid |-> calculate_bid_spread(gamma, lambda_b, v, inv),
                                  ask |-> calculate_ask_spread(gamma, lambda_a, v, inv)]]
        /\ UNCHANGED <<exchange_balances, shutdown, imConfig, asConfig, imState, cycle>>

\* AvellanedaStoikov.calculate_spreads(mid_price, volatility, inventory)
CalculateSpreadsCall ==
    \E m \in UnitPrices, v \in UnitVolSqs, inv \in UnitModelInvs :
        /\ call = NoCall
        /\ call' = [op |-> "calculate_spreads",
                    mid |-> m, vol_sq |-> v, inventory |-> inv,
                    ret |-> calculate_spreads(gamma, lambda_b, lambda_a, m, v, inv)]
        /\ UNCHANGED <<exchange_balances, shutdown, imConfig, asConfig, imState, cycle>>

\* What fetch_ohlcv returns: None, or a DataFrame of bars (of which the
\* program reads close and volume) with the OHLCV columns.
OHLCV == {"open", "high", "low", "close", "volume"}
Bar(c, v) == [close |-> c, volume |-> v]
Flat(n, c) == [i \in 1..n |-> Bar(c, Int2R(100))]
DataFrame(bars) == [k |-> "df", bars |-> bars, columns |-> OHLCV]
NoData == [k |-> "none", bars |-> <<>>, columns |-> {}]

\* A list of floats given in tenths.
Tenths(xs) == [i \in 1..Len(xs) |-> Rat(xs[i], 10)]

\* Closing prices given to check_flash_crash: the two lists of the unit
\* tests, an exact 20% and a 25% drop, a rise, drops that begin before the
\* window, and lists shorter than the windows.
UnitCloses ==
    { Tenths(<<1000, 1010, 990, 1005, 1012>>),
      Tenths(<<1000, 950, 900, 850, 800>>),
      Tenths(<<1000, 950, 900, 850, 750>>),
      Tenths(<<1000, 950, 900, 850, 801>>),
      Tenths(<<800, 850, 900, 950, 1000>>),
      Tenths(<<2000, 1000, 950, 900, 850, 810>>),
      Tenths(<<2000, 1000, 950, 900, 850, 790>>),
      Tenths(<<1000, 950, 900, 700>>),
      Tenths(<<1000, 700>>),
      Tenths(<<1000>>),
      <<>> }

UnitWindows == { 1, 2, 3, 5 }

\* Prices, peg values and thresholds given to check_stablecoin_depeg: the
\* unit tests' 0.90 and 1.01, and deviations below, at and above a threshold
\* (1/4, 1/2: deviations a float holds exactly).
UnitPegPrices ==
    { Rat(9, 10), Rat(101, 100), One, Rat(3, 4), Rat(5, 4), Rat(1, 2),
      Rat(3, 2), Rat(11, 10), Int2R(2), Zero }
UnitPegs == { One, Int2R(2) }
UnitDepegThresholds == { DepegThreshold, Rat(1, 4), Rat(1, 2) }

\* A list of floats given as integers.
Whole(xs) == [i \in 1..Len(xs) |-> Int2R(xs[i])]

\* Volumes given to check_abnormal_volume: the two lists of the unit tests,
\* an abnormally low and a moderately high last volume, a spike after a
\* constant history, and lists of 9 and 11 observations.
UnitVolumes ==
    { Whole(<<100, 110, 95, 105, 115, 90, 105, 110, 100, 500>>),
      Whole(<<100, 110, 95, 105, 115, 90, 105, 110, 100, 105>>),
      Whole(<<100, 110, 95, 105, 115, 90, 105, 110, 100, 0>>),
      Whole(<<100, 110, 95, 105, 115, 90, 105, 110, 100, 120>>),
      Whole(<<100, 100, 100, 100, 100, 100, 100, 100, 100, 500>>),
      Whole(<<100, 110, 95, 105, 115, 90, 105, 110, 500>>),
      Whole(<<100, 110, 95, 105, 115, 90, 105, 110, 100, 105, 500>>),
      Whole(<<100, 110, 95, 105, 115, 90, 105, 110, 100, 500, 105>>) }

UnitZScores == { ZScoreThreshold, Int2R(2) }

\* Bars with the given closes (in tenths of a cent of the peg) and volumes.
Bars(closes, volumes) ==
    [i \in 1..Len(closes) |-> Bar(Rat(closes[i], 1000), Int2R(volumes[i]))]

\* Frames given to check_all_circuit_breakers: None, an empty frame, 9
\* depegged bars, 10 quiet bars, and 10 bars on which exactly one of the
\* three checks fires (depeg; a crash from 1.30 to the peg; a volume spike).
UnitFrames ==
    { NoData, DataFrame(<<>>),
      DataFrame(Flat(MinBars - 1, Rat(9, 10))),
      DataFrame(Flat(MinBars, One)),
      DataFrame(Flat(MinBars, Rat(9, 10))),
      DataFrame(Bars(<<1000, 1000, 1000, 1000, 1000, 1300, 1300, 1300, 1300, 1000>>,
                     <<100, 100, 100, 100, 100, 100, 100, 100, 100, 100>>)),
      DataFrame(Bars(<<1000, 1000, 1000, 1000, 1000, 1000, 1000, 1000, 1000, 1000>>,
                     <<100, 110, 95, 105, 115, 90, 105, 110, 100, 500>>)),
      DataFrame(Bars(<<1000, 1000, 1000, 1000, 1000, 1000, 1000, 1000, 1000, 1000, 1000>>,
                     <<100, 110, 95, 105, 115, 90, 105, 110, 100, 105, 100>>)) }

\* CircuitBreakers.check_flash_crash(recent_prices, window)
CheckFlashCrashCall ==
    \E ps \in UnitCloses, w \in UnitWindows :
        /\ call = NoCall
        /\ call' = [op |-> "check_flash_crash", prices |-> ps, window |-> w,
                    ret |-> check_flash_crash(ps, w)]
        /\ UNCHANGED <<exchange_balances, shutdown, imConfig, asConfig, imState, cycle>>

\* CircuitBreakers.check_stablecoin_depeg(price, peg_value, threshold)
CheckStablecoinDepegCall ==
    \E p \in UnitPegPrices, peg \in UnitPegs, thr \in UnitDepegThresholds :
        /\ call = NoCall
        /\ call' = [op |-> "check_stablecoin_depeg", price |-> p,
                    peg_value |-> peg, threshold |-> thr,
                    ret |-> check_stablecoin_depeg(p, peg, thr)]
        /\ UNCHANGED <<exchange_balances, shutdown, imConfig, asConfig, imState, cycle>>

\* CircuitBreakers.check_abnormal_volume(recent_volumes, z_score_threshold)
CheckAbnormalVolumeCall ==
    \E vs \in UnitVolumes, z \in UnitZScores :
        /\ call = NoCall
        /\ call' = [op |-> "check_abnormal_volume", volumes |-> vs,
                    z_score_threshold |-> z,
                    ret |-> check_abnormal_volume(vs, z)]
        /\ UNCHANGED <<exchange_balances, shutdown, imConfig, asConfig, imState, cycle>>

\* CircuitBreakers.check_all_circuit_breakers(recent_data)
CheckAllCircuitBreakersCall ==
    \E data \in UnitFrames :
        /\ call = NoCall
        /\ call' = [op |-> "check_all_circuit_breakers", recent_data |-> data,
                    ret |-> check_all_circuit_breakers(data)]
        /\ UNCHANGED <<exchange_balances, shutdown, imConfig, asConfig, imState, cycle>>

\* The caller has read the result; the next call can be made.
Return ==
    /\ call # NoCall
    /\ call' = NoCall
    /\ UNCHANGED <<exchange_balances, shutdown, imConfig, asConfig, imState, cycle>>

vars == <<imConfig, asConfig, imState, call, cycle, shutdown,
         exchange_balances>>

(***************************************************************************)
(* main.py: market_making_cycle and the loop of main().                    *)
(***************************************************************************)
MaxOrders == 4      \* order ids the exchange issues in a run of the model

\* 21 bars with one price move, 0.975 -> 1.025, inside the window.
Moved == [i \in 1..(VolWindow + 1) |->
             Bar(IF i = 1 THEN Rat(39, 40) ELSE Rat(41, 40), Int2R(100))]

\* What fetch_ohlcv can return: None (the request failed), an empty frame,
\* frames of 5 and of 20 quiet bars, 21 bars with a move, 10 depegged bars.
Snapshots ==
    { NoData, DataFrame(<<>>),
      DataFrame(Flat(5, One)), DataFrame(Flat(VolWindow, One)),
      DataFrame(Moved), DataFrame(Flat(MinBars, Rat(9, 10))),
      DataFrame(Flat(MinBars, Int2R(10000))) }

\* What OrderManager.fetch_balances can return.
BalanceFetches ==
    { <<None, None>>, <<One, None>>, <<One, One>>, <<Int2R(3), One>>,
      <<One, Int2R(3)>> }

\* What fetch_ticker can return: None, a ticker with bid and ask, one without
\* the two keys, one whose bid has no value.
NoTicker == [k |-> "none", has_quotes |-> FALSE,
             bid |-> None, ask |-> None, last |-> None]
Tickers ==
    { NoTicker,
      [k |-> "ticker", has_quotes |-> TRUE,
       bid |-> Rat(99, 100), ask |-> Rat(101, 100), last |-> Rat(101, 100)],
      [k |-> "ticker", has_quotes |-> FALSE,
       bid |-> None, ask |-> None, last |-> One],
      [k |-> "ticker", has_quotes |-> TRUE,
       bid |-> None, ask |-> Rat(101, 100), last |-> One] }

\* The configurations main() can be started with: a valid one, gamma = 0,
\* and max_inventory_pct = skew_threshold.
CycleConfigs ==
    { <<DefaultIM, <<One, Int2R(2), Rat(1, 2)>> >>,
      <<DefaultIM, <<Zero, Int2R(2), Rat(1, 2)>> >>,
      << <<Rat(1, 5), Rat(1, 5)>>, <<One, Int2R(2), Rat(1, 2)>> >> }

NoPair == <<None, None>>

\* The decisions of market_making_cycle.
DataMissing(md) == md.k = "none" \/ Len(md.bars) = 0

VolatilityMissing(v) == IsNone(v)

BalancesMissing_OnlyBase(b) == IsNone(b[1])

BalancesMissing(b) == IsNone(b[1]) \/ IsNone(b[2])

TickerMissing(t) == t.k = "none"

\* (ticker['bid'] + ticker['ask']) / 2 if both keys are there, else
\* ticker['last']; adding None raises TypeError.
MidPrice(t) ==
    IF t.has_quotes
    THEN IF IsNone(t.bid) \/ IsNone(t.ask) THEN [k |-> "raise", mid |-> None]
         ELSE [k |-> "ok", mid |-> RDiv(RAdd(t.bid, t.ask), Int2R(2))]
    ELSE [k |-> "ok", mid |-> t.last]

\* final_bid_price, final_ask_price.
FinalPrices_Mirrored(mid, adj) == <<RAdd(mid, adj[1]), RSub(mid, adj[2])>>

FinalPrices(mid, adj) == <<RSub(mid, adj[1]), RAdd(mid, adj[2])>>

\* The prices update_orders is called with.
QuotePrices_Raw(final, model) == model

QuotePrices(final, model) == final

\* main() is in its loop (no user interrupt has arrived) and about to take
\* `step`.
At(step) == shutdown = <<>> /\ pc = step

\* `return False` / an exception leaving market_making_cycle: main() logs it
\* and sleeps.
EndCycle_Uncaught(how) ==
    /\ result' = how
    /\ pc' = IF how = "raised" THEN "Crashed" ELSE "Sleep"

EndCycle(how) ==
    /\ result' = how
    /\ pc' = "Sleep"

\* The requests of one update_orders call that the exchange rejects, as
\* <<cancel bid, cancel ask, place bid, place ask>>: none, or one of them.
OrderFailures ==
    { <<FALSE, FALSE, FALSE, FALSE>>,
      <<TRUE, FALSE, FALSE, FALSE>>, <<FALSE, TRUE, FALSE, FALSE>>,
      <<FALSE, FALSE, TRUE, FALSE>>, <<FALSE, FALSE, FALSE, TRUE>> }

\* `return False` after the halt's cancel_all_orders.
AfterHalt_Continue ==
    /\ pc' = "ComputeVolatility"
    /\ UNCHANGED result

AfterHalt == EndCycle("False")

\* 1. Fetch market data
FetchData ==
    /\ At("FetchData")
    /\ \E md \in Snapshots :
         /\ market_data' = md
         /\ calls' = <<"fetch_ohlcv">>
         /\ IF DataMissing(md)
            THEN EndCycle("False")
            ELSE pc' = "CheckBreakers" /\ UNCHANGED result
    /\ UNCHANGED <<exchange_balances, shutdown, imConfig, asConfig, imState, call, volatility, balances,
                   ticker, mid_price, inventory_pct, model_prices,
                   adjusted_spreads, final_prices, quote_prices, omState>>

\* 2. Check circuit breakers; on a halt cancel all orders and return False
CheckBreakers ==
    /\ At("CheckBreakers")
    /\ IF check_all_circuit_breakers(market_data)
       THEN \E fetch_fails \in BOOLEAN, fail_at \in 1..(Len(exchange_orders) + 1) :
              LET r == cancel_all_orders(exchange_orders, open_orders,
                                         fetch_fails, fail_at)
              IN  /\ exchange_orders' = r.orders
                  /\ open_orders' = r.tracked
                  /\ calls' = calls \o <<"check_all_circuit_breakers",
                                         "cancel_all_orders">>
                  /\ AfterHalt
       ELSE /\ calls' = Append(calls, "check_all_circuit_breakers")
            /\ pc' = "ComputeVolatility"
            /\ UNCHANGED <<result, exchange_orders, open_orders>>
    /\ UNCHANGED <<exchange_balances, shutdown, imConfig, asConfig, imState, call, locals, quote_prices,
                   next_id>>

\* 3. Calculate volatility
ComputeVolatility ==
    /\ At("ComputeVolatility")
    /\ LET r == get_realized_volatility(market_data.bars, VolWindow)
       IN  /\ calls' = Append(calls, "get_realized_volatility")
           /\ IF r.k = "raise"
              THEN /\ EndCycle("raised")
                   /\ UNCHANGED <<market_data, volatility>>
              ELSE /\ market_data' = [market_data EXCEPT
                                        !.columns = @ \cup VolatilityColumns]
                   /\ volatility' = r.vol
                   /\ IF VolatilityMissing(r.vol)
                      THEN EndCycle("False")
                      ELSE pc' = "FetchBalances" /\ UNCHANGED result
    /\ UNCHANGED <<exchange_balances, shutdown, imConfig, asConfig, imState, call, balances, ticker,
                   mid_price, inventory_pct, model_prices, adjusted_spreads,
                   final_prices, quote_prices, omState>>

\* 4. Fetch current balances
FetchBalances ==
    /\ At("FetchBalances")
    /\ \E b \in BalanceFetches :
         /\ balances' = b
         /\ calls' = Append(calls, "fetch_balances")
         /\ IF BalancesMissing(b)
            THEN EndCycle("False")
            ELSE pc' = "FetchTicker" /\ UNCHANGED result
    /\ UNCHANGED <<exchange_balances, shutdown, imConfig, asConfig, imState, call, market_data, volatility,
                   ticker, mid_price, inventory_pct, model_prices,
                   adjusted_spreads, final_prices, quote_prices, omState>>

\* 5. Get current mid price
FetchTicker ==
    /\ At("FetchTicker")
    /\ \E t \in Tickers :
         /\ ticker' = t
         /\ calls' = Append(calls, "fetch_ticker")
         /\ IF TickerMissing(t)
            THEN EndCycle("False") /\ UNCHANGED mid_price
            ELSE IF MidPrice(t).k = "raise"
            THEN EndCycle("raised") /\ UNCHANGED mid_price
            ELSE /\ mid_price' = MidPrice(t).mid
                 /\ pc' = "UpdateInventory"
                 /\ UNCHANGED result
    /\ UNCHANGED <<exchange_balances, shutdown, imConfig, asConfig, imState, call, market_data, volatility,
                   balances, inventory_pct, model_prices, adjusted_spreads,
                   final_prices, quote_prices, omState>>

\* 6. Update inventory position; 7. Record position (the history that
\* PositionTracker appends to is not part of the model)
UpdateInventory ==
    /\ At("UpdateInventory")
    /\ LET inv == InventoryOf(balances[1], balances[2], mid_price)
       IN  /\ current_inventory' = inv
           /\ base_balance' = balances[1]
           /\ inventory_pct' = inv
    /\ calls' = calls \o <<"update_inventory", "record_position">>
    /\ pc' = "Price"
    /\ UNCHANGED <<exchange_balances, shutdown, imConfig, asConfig, call, market_data, volatility, balances,
                   ticker, mid_price, model_prices, adjusted_spreads,
                   final_prices, quote_prices, result, omState>>

\* 8. Calculate base spreads using the model
Price ==
    /\ At("Price")
    /\ LET r == calculate_spreads(gamma, lambda_b, lambda_a,
                                  mid_price, volatility, inventory_pct)
       IN  /\ calls' = Append(calls, "calculate_spreads")
           /\ IF r.k = "raise"
              THEN EndCycle("raised") /\ UNCHANGED model_prices
              ELSE /\ model_prices' = <<r.bid, r.ask>>
                   /\ pc' = "AdjustSpreads"
                   /\ UNCHANGED result
    /\ UNCHANGED <<exchange_balances, shutdown, imConfig, asConfig, imState, call, market_data, volatility,
                   balances, ticker, mid_price, inventory_pct,
                   adjusted_spreads, final_prices, quote_prices, omState>>

\* 9. Adjust spreads based on inventory; 10. Calculate final prices
AdjustSpreads ==
    /\ At("AdjustSpreads")
    /\ LET bid_spread == RSub(mid_price, model_prices[1])
           ask_spread == RSub(model_prices[2], mid_price)
           r == adjust_spreads(bid_spread, ask_spread, inventory_pct,
                               current_inventory, max_inventory_pct,
                               skew_threshold)
       IN  /\ calls' = Append(calls, "adjust_spreads")
           /\ IF r.k = "raise"
              THEN /\ EndCycle("raised")
                   /\ UNCHANGED <<adjusted_spreads, final_prices>>
              ELSE /\ adjusted_spreads' = <<r.bid, r.ask>>
                   /\ final_prices' = FinalPrices(mid_price, <<r.bid, r.ask>>)
                   /\ pc' = "UpdateOrders"
                   /\ UNCHANGED result
    /\ UNCHANGED <<exchange_balances, shutdown, imConfig, asConfig, imState, call, market_data, volatility,
                   balances, ticker, mid_price, inventory_pct, model_prices,
                   quote_prices, omState>>

\* 11. Update orders; 12. return True
UpdateOrders ==
    /\ At("UpdateOrders")
    /\ calls' = Append(calls, "update_orders")
    /\ quote_prices' = QuotePrices(final_prices, model_prices)
    /\ \E fetch_fails \in BOOLEAN, f \in OrderFailures :
         IF fetch_fails \/ UpdateOrdersDividesByZero(exchange_orders)
         THEN EndCycle("raised") /\ UNCHANGED omState
         ELSE LET r == update_orders(exchange_orders, open_orders, next_id,
                                     quote_prices'[1], quote_prices'[2],
                                     f[1], f[2], f[3], f[4])
              IN  /\ r.next_id <= MaxOrders + 1
                  /\ exchange_orders' = r.orders
                  /\ open_orders' = r.tracked
                  /\ next_id' = r.next_id
                  /\ EndCycle("True")
    /\ UNCHANGED <<exchange_balances, shutdown, imConfig, asConfig, imState, call, locals>>

\* time.sleep(CYCLE_TIME), after a cycle that returned or raised; the next
\* cycle starts with fresh locals.
Sleep ==
    /\ At("Sleep")
    /\ pc' = "FetchData"
    /\ market_data' = NoData
    /\ volatility' = None
    /\ balances' = NoPair
    /\ ticker' = NoTicker
    /\ mid_price' = None
    /\ inventory_pct' = None
    /\ model_prices' = NoPair
    /\ adjusted_spreads' = NoPair
    /\ final_prices' = NoPair
    /\ quote_prices' = NoPair
    /\ calls' = <<>>
    /\ result' = "none"
    /\ UNCHANGED <<exchange_balances, shutdown, imConfig, asConfig, imState, call, omState>>

\* KeyboardInterrupt, raised at whichever step of the cycle or sleep main()
\* is at: the frame of market_making_cycle is unwound (its locals are gone)
\* and control passes to the handler of main().
Interrupt ==
    /\ shutdown = <<>>
    /\ shutdown' = <<[step |-> "KeyboardInterrupt", at |-> pc]>>
    /\ pc' = "FetchData"
    /\ market_data' = NoData
    /\ volatility' = None
    /\ balances' = NoPair
    /\ ticker' = NoTicker
    /\ mid_price' = None
    /\ inventory_pct' = None
    /\ model_prices' = NoPair
    /\ adjusted_spreads' = NoPair
    /\ final_prices' = NoPair
    /\ quote_prices' = NoPair
    /\ calls' = <<>>
    /\ result' = "none"
    /\ UNCHANGED <<exchange_balances, imConfig, asConfig, imState, call, omState>>

\* One cancel_all_orders() of the shutdown, noted as made at `where`.
ShutdownCancel(where) ==
    /\ \E fetch_fails \in BOOLEAN, fail_at \in 1..(Len(exchange_orders) + 1) :
          LET r == cancel_all_orders(exchange_orders, open_orders,
                                     fetch_fails, fail_at)
          IN  /\ exchange_orders' = r.orders
              /\ open_orders' = r.tracked
    /\ shutdown' = Append(shutdown, [step |-> "cancel_all_orders", at |-> where])
    /\ UNCHANGED <<exchange_balances, imConfig, asConfig, imState, call, pc, locals,
                   quote_prices, calls, result, next_id>>

\* except KeyboardInterrupt: cancel all open orders
HandleInterrupt ==
    /\ Len(shutdown) = 1
    /\ ShutdownCancel("except")

\* finally: cancel all open orders on exit, whatever that raises
Finally ==
    /\ Len(shutdown) = 2
    /\ ShutdownCancel("finally")

\* main() returns and the process exits.
Exit_Unhandled ==
    /\ Len(shutdown) = 1
    /\ shutdown' = Append(shutdown, [step |-> "exit", at |-> "main"])
    /\ UNCHANGED <<exchange_balances, imConfig, asConfig, imState, call, cycle>>

Exit ==
    /\ Len(shutdown) = 3
    /\ shutdown' = Append(shutdown, [step |-> "exit", at |-> "main"])
    /\ UNCHANGED <<exchange_balances, imConfig, asConfig, imState, call, cycle>>

\* The state of the cycle before its first step.
CycleStart ==
    /\ pc = "FetchData"
    /\ market_data = NoData
    /\ volatility = None
    /\ balances = NoPair
    /\ ticker = NoTicker
    /\ mid_price = None
    /\ inventory_pct = None
    /\ model_prices = NoPair
    /\ adjusted_spreads = NoPair
    /\ final_prices = NoPair
    /\ quote_prices = NoPair
    /\ calls = <<>>
    /\ result = "none"
    /\ exchange_orders = <<>>
    /\ open_orders = {}
    /\ next_id = 1

\* initialize(): the components are constructed; no order rests yet.
Init ==
    /\ \E c \in CycleConfigs :
          /\ max_inventory_pct = c[1][1] /\ skew_threshold = c[1][2]
          /\ gamma = c[2][1] /\ lambda_b = c[2][2] /\ lambda_a = c[2][3]
    /\ current_inventory = Zero
    /\ base_balance = Zero
    /\ call = NoCall
    /\ CycleStart
    /\ shutdown = <<>>
    /\ exchange_balances = PaperBalances

Next ==
    \/ FetchData
    \/ CheckBreakers
    \/ ComputeVolatility
    \/ FetchBalances
    \/ FetchTicker
    \/ UpdateInventory
    \/ Price
    \/ AdjustSpreads
    \/ UpdateOrders
    \/ Sleep
    \/ Interrupt
    \/ HandleInterrupt
    \/ Finally
    \/ Exit

Spec == Init /\ [][Next]_vars

\* time.sleep(CYCLE_TIME) returns: the loop goes on after every sleep.
FairSpec == Spec /\ WF_vars(Sleep)

(***************************************************************************)
(* The components called directly.                                         *)
(***************************************************************************)
\* The two components do not read each other's parameters: each one's
\* parameter sets are explored with the other at its first setting.
InitUnit ==
    /\ \E c \in IMConfigs, m \in ASConfigs :
          /\ c = DefaultIM \/ m = DefaultAS
          /\ max_inventory_pct = c[1] /\ skew_threshold = c[2]
          /\ gamma = m[1] /\ lambda_b = m[2] /\ lambda_a = m[3]
    /\ current_inventory = Zero
    /\ base_balance = Zero
    /\ call = NoCall
    /\ CycleStart
    /\ shutdown = <<>>
    /\ exchange_balances = PaperBalances

NextUnit ==
    \/ UpdateInventoryCall \/ AdjustSpreadsCall \/ CalculateSpreadsCall
    \/ IsInventoryBalancedCall \/ GetRebalanceAmountCall
    \/ CalculateBidAskSpreadCall
    \/ Return

SpecUnit == InitUnit /\ [][NextUnit]_vars

\* The OrderManager called directly, against an exchange that also fills
\* resting orders.
OrderPrices == {One, Rat(10001, 10000), Int2R(2)}

\* The orders placed in a run of direct calls.
MaxPlaced == 3

PlaceLimitOrderCall ==
    \E side \in {"buy", "sell"}, price \in OrderPrices, fails \in BOOLEAN :
        LET r == place_limit_order(exchange_orders, open_orders, next_id,
                                   side, price, fails)
        IN  /\ call = NoCall
            /\ r.next_id <= MaxPlaced + 1
            /\ exchange_orders' = r.orders
            /\ open_orders' = r.tracked
            /\ next_id' = r.next_id
            /\ call' = [op |-> "place_limit_order", tracked |-> open_orders,
                        ret |-> r.ret]
            /\ UNCHANGED <<exchange_balances, shutdown, imConfig, asConfig, imState, pc, locals,
                           quote_prices, calls, result>>

CancelOrderCall ==
    \E id \in 1..(next_id - 1), fails \in BOOLEAN :
        LET r == cancel_order(exchange_orders, open_orders, id, fails)
        IN  /\ call = NoCall
            /\ exchange_orders' = r.orders
            /\ open_orders' = r.tracked
            /\ call' = [op |-> "cancel_order", id |-> id, ret |-> r.ret]
            /\ UNCHANGED <<exchange_balances, shutdown, imConfig, asConfig, imState, pc, locals,
                           quote_prices, calls, result, next_id>>

CancelAllOrdersCall ==
    \E fetch_fails \in BOOLEAN, fail_at \in 1..(Len(exchange_orders) + 1) :
        LET r == cancel_all_orders(exchange_orders, open_orders,
                                   fetch_fails, fail_at)
        IN  /\ call = NoCall
            /\ exchange_orders' = r.orders
            /\ open_orders' = r.tracked
            /\ call' = [op |-> "cancel_all_orders", before |-> exchange_orders,
                        failed |-> fetch_fails \/ fail_at <= Len(exchange_orders),
                        ret |-> r.ret]
            /\ UNCHANGED <<exchange_balances, shutdown, imConfig, asConfig, imState, pc, locals,
                           quote_prices, calls, result, next_id>>

UpdateOrdersCall ==
    \E bid_price \in OrderPrices, ask_price \in OrderPrices,
       f \in OrderFailures :
        LET r == update_orders(exchange_orders, open_orders, next_id,
                               bid_price, ask_price, f[1], f[2], f[3], f[4])
        IN  /\ call = NoCall
            /\ r.next_id <= MaxPlaced + 1
            /\ exchange_orders' = r.orders
            /\ open_orders' = r.tracked
            /\ next_id' = r.next_id
            /\ call' = [op |-> "update_orders", before |-> exchange_orders,
                        bid_price |-> bid_price, ask_price |-> ask_price,
                        failed |-> f, requests |-> r.requests,
                        ret |-> <<r.bid_order, r.ask_order>>]
            /\ UNCHANGED <<exchange_balances, shutdown, imConfig, asConfig, imState, pc, locals,
                           quote_prices, calls, result>>

\* The exchange fills a resting order: it is open no longer.
Fill ==
    \E i \in 1..Len(exchange_orders) :
        /\ call = NoCall
        /\ exchange_orders' = RemoveOrder(exchange_orders, exchange_orders[i].id)
        /\ UNCHANGED <<exchange_balances, shutdown, imConfig, asConfig, imState, call, pc, locals,
                       quote_prices, calls, result, open_orders, next_id>>

\* OrderManager(exchange, symbol): nothing is tracked, no order rests.
InitOrders ==
    /\ max_inventory_pct = DefaultIM[1] /\ skew_threshold = DefaultIM[2]
    /\ gamma = DefaultAS[1] /\ lambda_b = DefaultAS[2] /\ lambda_a = DefaultAS[3]
    /\ current_inventory = Zero
    /\ base_balance = Zero
    /\ call = NoCall
    /\ CycleStart
    /\ shutdown = <<>>
    /\ exchange_balances = PaperBalances

NextOrders ==
    \/ PlaceLimitOrderCall \/ CancelOrderCall \/ CancelAllOrdersCall
    \/ UpdateOrdersCall
    \/ Fill
    \/ Return

SpecOrders == InitOrders /\ [][NextOrders]_vars

\* update_orders as the only caller of the exchange, as in the trading loop.
NextQuoting ==
    \/ UpdateOrdersCall
    \/ Fill
    \/ Return

SpecQuoting == InitOrders /\ [][NextQuoting]_vars

\* The MockExchange called directly.  Its balances are small enough for an
\* order to be refused; amounts and prices are whole numbers.
MockBalances ==
    [base  |-> Funds(Int2R(2), Zero, Int2R(2)),
     quote |-> Funds(Int2R(4), Zero, Int2R(4))]

MockAmounts == {One}
MockPrices == {One, Int2R(2)}
DrawnPrices == {Rat(1, 2), Rat(3, 2), Int2R(3)}

CreateLimitOrderCall ==
    \E side \in {"buy", "sell"}, amount \in MockAmounts, price \in MockPrices,
       drawn \in DrawnPrices :
        LET r == create_limit_order(exchange_balances, exchange_orders, next_id,
                                    side, amount, price, drawn)
        IN  /\ call = NoCall
            /\ r.next_id <= MaxPlaced + 1
            /\ exchange_balances' = r.balances
            /\ exchange_orders' = r.orders
            /\ next_id' = r.next_id
            /\ call' = [op |-> "create_limit_order", ret |-> r.k]
            /\ UNCHANGED <<shutdown, imConfig, asConfig, imState, pc, locals,
                           quote_prices, calls, result, open_orders>>

MockCancelOrderCall ==
    \E id \in 1..(next_id - 1) :
        LET r == mock_cancel_order(exchange_balances, exchange_orders, id)
        IN  /\ call = NoCall
            /\ exchange_balances' = r.balances
            /\ exchange_orders' = r.orders
            /\ call' = [op |-> "cancel_order", ret |-> r.k]
            /\ UNCHANGED <<shutdown, imConfig, asConfig, imState, pc, locals,
                           quote_prices, calls, result, open_orders, next_id>>

\* fetch_balance() / fetch_open_orders(): _process_fills() and a read.
ProcessFillsCall ==
    \E drawn \in DrawnPrices :
        LET r == process_fills(exchange_balances, exchange_orders, drawn)
        IN  /\ call = NoCall
            /\ exchange_balances' = r.balances
            /\ exchange_orders' = r.orders
            /\ call' = [op |-> "process_fills",
                        ret |-> Len(exchange_orders) - Len(r.orders)]
            /\ UNCHANGED <<shutdown, imConfig, asConfig, imState, pc, locals,
                           quote_prices, calls, result, open_orders, next_id>>

InitMock ==
    /\ max_inventory_pct = DefaultIM[1] /\ skew_threshold = DefaultIM[2]
    /\ gamma = DefaultAS[1] /\ lambda_b = DefaultAS[2] /\ lambda_a = DefaultAS[3]
    /\ current_inventory = Zero
    /\ base_balance = Zero
    /\ call = NoCall
    /\ CycleStart
    /\ shutdown = <<>>
    /\ exchange_balances \in {MockBalances, PaperBalances}

NextMock ==
    \/ CreateLimitOrderCall \/ MockCancelOrderCall \/ ProcessFillsCall
    \/ Return

SpecMock == InitMock /\ [][NextMock]_vars

\* The CircuitBreakers of the default settings, its checks called directly.
InitBreakers ==
    /\ max_inventory_pct = DefaultIM[1] /\ skew_threshold = DefaultIM[2]
    /\ gamma = DefaultAS[1] /\ lambda_b = DefaultAS[2] /\ lambda_a = DefaultAS[3]
    /\ current_inventory = Zero
    /\ base_balance = Zero
    /\ call = NoCall
    /\ CycleStart
    /\ shutdown = <<>>
    /\ exchange_balances = PaperBalances

NextBreakers ==
    \/ CheckFlashCrashCall \/ CheckStablecoinDepegCall
    \/ CheckAbnormalVolumeCall \/ CheckAllCircuitBreakersCall
    \/ Return

SpecBreakers == InitBreakers /\ [][NextBreakers]_vars

(***************************************************************************)
(* Properties of the components (checked under SpecUnit).                  *)
(***************************************************************************)
IsAdjust == call.op = "adjust_spreads"

\* The inventory adjust_spreads has to test: the argument, or the stored
\* current_inventory when the argument is omitted.
Tested == IF IsNone(call.inventory_pct) THEN current_inventory
          ELSE call.inventory_pct

ValidIMConfig == RGe(skew_threshold, Zero) /\ RLt(skew_threshold, max_inventory_pct)

\* clamp((|inventory_pct| - skew_threshold) / (max_inventory_pct - skew_threshold), 0, 0.8)
ClampedFactor ==
    LET q == RDiv(RSub(PyAbs(Tested), skew_threshold),
                  RSub(max_inventory_pct, skew_threshold))
    IN  IF RLt(q, Zero) THEN Zero
        ELSE IF RGt(q, Rat(4, 5)) THEN Rat(4, 5) ELSE q

\* C4: with gamma, lambda_b, lambda_a > 0 and a volatility >= 0,
\* calculate_spreads returns bid_price < mid_price < ask_price for every
\* mid_price and inventory.
C4_BidBelowMidBelowAsk ==
    ( /\ call.op = "calculate_spreads"
      /\ RGt(gamma, Zero) /\ RGt(lambda_b, Zero) /\ RGt(lambda_a, Zero)
      /\ RGe(call.vol_sq, Zero) )
    => /\ call.ret.k = "ok"
       /\ RLt(call.ret.bid, call.mid)
       /\ RLt(call.mid, call.ret.ask)

C4_Witness ==
    /\ call.op = "calculate_spreads"
    /\ RGt(gamma, Zero) /\ RGt(lambda_b, Zero) /\ RGt(lambda_a, Zero)
    /\ RGt(call.vol_sq, Zero)
    /\ RLt(call.inventory, Int2R(-1))
    /\ call.ret.k = "ok"
    /\ RLt(call.ret.bid, call.mid)

\* C5: an inventory with |inventory_pct| <= skew_threshold leaves the spread
\* pair unchanged, and an omitted inventory_pct means the stored
\* current_inventory is the value tested.
C5_UnchangedWithinThreshold ==
    IsAdjust =>
        /\ call.ret.inv = Tested
        /\ RLe(PyAbs(Tested), skew_threshold)
             => /\ call.ret.k = "ok"
                /\ call.ret.bid = call.bid
                /\ call.ret.ask = call.ask

C5_Witness ==
    /\ IsAdjust
    /\ IsNone(call.inventory_pct)
    /\ RLt(current_inventory, Zero)
    /\ RLe(PyAbs(current_inventory), skew_threshold)
    /\ RGt(call.bid, Zero) /\ RGt(call.ask, call.bid)
    /\ call.ret.bid = call.bid /\ call.ret.ask = call.ask

\* C6: whenever adjust_spreads applies an adjustment factor (the inventory is
\* beyond the threshold), that factor lies in [0, 0.8].
C6_FactorClamped ==
    (IsAdjust /\ RGt(PyAbs(Tested), skew_threshold) /\ call.ret.k = "ok")
    => /\ IsNum(call.ret.factor)
       /\ RGe(call.ret.factor, Zero)
       /\ RLe(call.ret.factor, Rat(8, 10))

C6_Witness ==
    /\ IsAdjust
    /\ call.inventory_pct = Rat(99, 100)
    /\ max_inventory_pct = Rat(7, 20)
    /\ call.ret.k = "ok"
    /\ call.ret.factor = Rat(8, 10)

\* C7: for positive spreads and an inventory beyond the threshold the result
\* is (bid*(1+0.5f), ask*max(0.2, 1-f)) when inventory_pct > 0 and
\* (bid*max(0.2, 1-f), ask*(1+0.5f)) otherwise, f the clamped factor; under a
\* valid configuration (0 <= skew_threshold < max_inventory_pct) the widened
\* side strictly grows and the narrowed side strictly shrinks.
C7_Directional ==
    ( /\ IsAdjust /\ call.ret.k = "ok"
      /\ RGt(call.bid, Zero) /\ RGt(call.ask, Zero)
      /\ RGt(PyAbs(Tested), skew_threshold) )
    => LET f    == ClampedFactor
           up   == RAdd(One, RMul(Rat(1, 2), f))
           down == PyMax(Rat(1, 5), RSub(One, f))
       IN  IF RGt(Tested, Zero)
           THEN /\ call.ret.bid = RMul(call.bid, up)
                /\ call.ret.ask = RMul(call.ask, down)
                /\ ValidIMConfig => /\ RGt(call.ret.bid, call.bid)
                                    /\ RLt(call.ret.ask, call.ask)
           ELSE /\ call.ret.bid = RMul(call.bid, down)
                /\ call.ret.ask = RMul(call.ask, up)
                /\ ValidIMConfig => /\ RLt(call.ret.bid, call.bid)
                                    /\ RGt(call.ret.ask, call.ask)

C7_Witness ==
    /\ IsAdjust /\ call.ret.k = "ok"
    /\ RGt(call.bid, Zero) /\ RGt(call.ask, Zero)
    /\ RLt(Tested, RNeg(skew_threshold))
    /\ RGt(call.ret.factor, Zero) /\ RLt(call.ret.factor, Rat(8, 10))
    /\ RLt(call.ret.bid, call.bid) /\ RGt(call.ret.ask, call.ask)

\* C8: for non-negative spreads every returned spread is at least
\* 0.1 * min(bid_spread, ask_spread), at least 20% of its original value and
\* at most 140% of it.
C8_SpreadBounds ==
    ( /\ IsAdjust /\ call.ret.k = "ok"
      /\ RGe(call.bid, Zero) /\ RGe(call.ask, Zero) )
    => LET floor == RMul(Rat(1, 10), PyMin(call.bid, call.ask))
       IN  /\ RGe(call.ret.bid, floor) /\ RGe(call.ret.ask, floor)
           /\ RGe(call.ret.bid, RMul(Rat(20, 100), call.bid))
           /\ RGe(call.ret.ask, RMul(Rat(20, 100), call.ask))
           /\ RLe(call.ret.bid, RMul(Rat(140, 100), call.bid))
           /\ RLe(call.ret.ask, RMul(Rat(140, 100), call.ask))

C8_Witness ==
    /\ IsAdjust /\ call.ret.k = "ok"
    /\ RGt(call.bid, call.ask) /\ RGt(call.ask, Zero)
    /\ call.ret.branch = "base_heavy"
    /\ call.ret.bid = RMul(Rat(140, 100), call.bid)
    /\ call.ret.ask = RMul(Rat(20, 100), call.ask)

\* C10: update_inventory returns and stores 2*base_value/portfolio_value - 1
\* when portfolio_value > 0 and 0 otherwise, and stores base_balance; the
\* result is zero, positive or negative as base_value equals, exceeds or is
\* below quote_balance.
C10_UpdateInventory ==
    call.op = "update_inventory" =>
        LET base_value      == RMul(call.base, call.mid)
            portfolio_value == RAdd(base_value, call.quote)
        IN  /\ IsNum(call.ret)
            /\ RGt(portfolio_value, Zero)
                 => RMul(RAdd(call.ret, One), portfolio_value)
                      = RMul(Int2R(2), base_value)
            /\ ~RGt(portfolio_value, Zero) => call.ret = Zero
            /\ current_inventory = call.ret
            /\ base_balance = call.base
            /\ (base_value = call.quote) => call.ret = Zero
            /\ RGt(base_value, call.quote) => RGt(call.ret, Zero)
            /\ RLt(base_value, call.quote) => RLt(call.ret, Zero)

C10_Witness ==
    /\ call.op = "update_inventory"
    /\ call.base = Rat(1, 2) /\ call.quote = Int2R(100) /\ call.mid = Int2R(100)
    /\ call.ret = Rat(-1, 3)
    /\ current_inventory = Rat(-1, 3)
    /\ base_balance = Rat(1, 2)

\* C11: initially and after any sequence of update_inventory calls with
\* base_balance, quote_balance, mid_price >= 0 the stored current_inventory
\* is a number in [-1, 1].
C11_InventoryInRange ==
    /\ IsNum(current_inventory)
    /\ RGe(current_inventory, Int2R(-1))
    /\ RLe(current_inventory, One)

\* The lower end of the range is stored: only the quote asset is held.
C11_Witness ==
    /\ call.op = "update_inventory"
    /\ RGt(call.quote, Zero) /\ call.ret = Int2R(-1)
    /\ current_inventory = Int2R(-1)
    /\ base_balance = Zero

C22_CycleWritesOnce ==
    [][ /\ (pc = "UpdateInventory" /\ shutdown' = <<>>)
             => imState' = <<InventoryOf(balances[1], balances[2], mid_price),
                             balances[1]>>
        /\ ~(pc = "UpdateInventory" /\ shutdown' = <<>>)
             => imState' = imState ]_vars

\* C23: with lambda_b = lambda_a, gamma > 0 and volatility > 0 the raw
\* spreads lean against the side that would worsen the imbalance: inventory
\* > 0 gives bid spread > ask spread, inventory < 0 gives ask spread > bid
\* spread, inventory = 0 gives equal spreads; with volatility = 0 the two
\* spreads are equal for every inventory.
C23_SpreadsLeanAgainstInventory ==
    ( /\ call.op = "calculate_bid_ask_spread"
      /\ lambda_b = lambda_a /\ RGt(lambda_b, Zero) /\ RGt(gamma, Zero) )
    => /\ call.ret.k = "ok"
       /\ (RGt(call.vol_sq, Zero) /\ RGt(call.inventory, Zero))
            => RGt(call.ret.bid, call.ret.ask)
       /\ (RGt(call.vol_sq, Zero) /\ RLt(call.inventory, Zero))
            => RGt(call.ret.ask, call.ret.bid)
       /\ (RGt(call.vol_sq, Zero) /\ call.inventory = Zero)
            => call.ret.bid = call.ret.ask
       /\ call.vol_sq = Zero => call.ret.bid = call.ret.ask

\* A long inventory of 1/2 at volatility 1, symmetric arrival rates.
C23_Witness ==
    /\ call.op = "calculate_bid_ask_spread"
    /\ lambda_b = lambda_a /\ RGt(gamma, Zero)
    /\ call.vol_sq = One /\ call.inventory = Rat(1, 2)
    /\ RGt(call.ret.bid, call.ret.ask)

(***************************************************************************)
(* Properties of the circuit breakers (checked under SpecBreakers).        *)
(***************************************************************************)
\* C12: check_all_circuit_breakers returns true if and only if the snapshot
\* is not None, has at least 10 bars and one of check_flash_crash(closes),
\* check_stablecoin_depeg(last close), check_abnormal_volume(volumes) fires;
\* with None or fewer than 10 bars it returns false.
C12_AggregateVerdict ==
    call.op = "check_all_circuit_breakers" =>
        LET data == call.recent_data
            n    == Len(data.bars)
        IN  /\ call.ret \in BOOLEAN
            /\ call.ret <=>
                  /\ data.k # "none"
                  /\ n >= 10
                  /\ \/ check_flash_crash(Closes(data.bars), 5)
                     \/ check_stablecoin_depeg(data.bars[n].close, One,
                                               Rat(5, 100))
                     \/ check_abnormal_volume(Volumes(data.bars), Int2R(3))

\* Fail-open: 9 bars at 0.90, on which the depeg check alone would fire.
C12_Witness ==
    /\ call.op = "check_all_circuit_breakers"
    /\ Len(call.recent_data.bars) = 9
    /\ check_stablecoin_depeg(call.recent_data.bars[9].close, One, Rat(5, 100))
    /\ call.ret = FALSE

\* C13: check_flash_crash(prices, window) returns true exactly when there
\* are at least window prices and the change from prices[-window] to
\* prices[-1], relative to prices[-window], is strictly below
\* -price_change_threshold; with fewer than window prices it returns false.
C13_FlashCrash ==
    call.op = "check_flash_crash" =>
        LET n     == Len(call.prices)
            first == call.prices[n - call.window + 1]
            last  == call.prices[n]
        IN  /\ n < call.window => call.ret = FALSE
            /\ n >= call.window =>
                  /\ RGt(first, Zero)
                  /\ call.ret <=>
                        RLt(RSub(last, first),
                            RNeg(RMul(PriceChangeThreshold, first)))

\* A drop of more than 20% inside the window of 5, in a list of 6 prices.
C13_Witness ==
    /\ call.op = "check_flash_crash"
    /\ call.window = 5 /\ Len(call.prices) = 6
    /\ call.prices[2] = Int2R(100) /\ call.prices[6] = Int2R(79)
    /\ call.ret = TRUE

\* A call of check_flash_crash on the given closes (in tenths), window 5,
\* by the CircuitBreakers of the default 20% threshold.
FlashCrashOn(xs) ==
    /\ call.op = "check_flash_crash"
    /\ call.prices = Tenths(xs) /\ call.window = 5
    /\ PriceChangeThreshold = Rat(1, 5)

\* C14 as stated: with the default threshold 0.2 and window 5,
\* check_flash_crash returns true on [100, 95, 90, 85, 80] and false on
\* [100, 101, 99, 100.5, 101.2].
C14_Examples_AsStated ==
    /\ FlashCrashOn(<<1000, 950, 900, 850, 800>>) => call.ret = TRUE
    /\ FlashCrashOn(<<1000, 1010, 990, 1005, 1012>>) => call.ret = FALSE

\* C14, amended: with the default threshold 0.2 and window 5,
\* check_flash_crash returns false on [100, 95, 90, 85, 80] (a drop of
\* exactly 20%, which is not below -20%) and on [100, 101, 99, 100.5, 101.2];
\* it returns true on [100, 95, 90, 85, 75].
C14_Examples ==
    /\ FlashCrashOn(<<1000, 950, 900, 850, 800>>) => call.ret = FALSE
    /\ FlashCrashOn(<<1000, 1010, 990, 1005, 1012>>) => call.ret = FALSE
    /\ FlashCrashOn(<<1000, 950, 900, 850, 750>>) => call.ret = TRUE

C14_Witness ==
    /\ FlashCrashOn(<<1000, 950, 900, 850, 800>>)
    /\ call.ret = FALSE

\* A call of check_stablecoin_depeg with the default peg 1.0 and threshold
\* 0.05 on the given price.
DepegOn(price) ==
    /\ call.op = "check_stablecoin_depeg"
    /\ call.price = price
    /\ call.peg_value = One /\ call.threshold = Rat(5, 100)

\* C15: check_stablecoin_depeg(price, peg_value, threshold) returns true
\* exactly when |price - peg_value| / peg_value > threshold: with the
\* defaults 0.90 fires and 1.01 does not, and a deviation equal to the
\* threshold does not fire.
C15_Depeg ==
    call.op = "check_stablecoin_depeg" =>
        LET distance == PyAbs(RSub(call.price, call.peg_value))
            allowed  == RMul(call.threshold, call.peg_value)
        IN  /\ RGt(call.peg_value, Zero)
            /\ call.ret <=> RGt(distance, allowed)
            /\ distance = allowed => call.ret = FALSE
            /\ DepegOn(Rat(9, 10)) => call.ret = TRUE
            /\ DepegOn(Rat(101, 100)) => call.ret = FALSE

\* A deviation of exactly the threshold, above the peg.
C15_Witness ==
    /\ call.op = "check_stablecoin_depeg"
    /\ call.price = Rat(5, 4) /\ call.peg_value = One
    /\ call.threshold = Rat(1, 4)
    /\ call.ret = FALSE

\* A call of check_abnormal_volume with the default z-score threshold 3.0
\* on the given volumes.
VolumeOn(xs) ==
    /\ call.op = "check_abnormal_volume"
    /\ call.volumes = Whole(xs)
    /\ call.z_score_threshold = Int2R(3)

\* C16: check_abnormal_volume returns true exactly when there are at least
\* 10 observations, the standard deviation of all volumes but the last is
\* not zero and the z-score of the last volume against the mean and standard
\* deviation of the others exceeds the threshold (3.0).  The list ending in
\* 500 fires, the list ending in 105 does not, and a last volume below the
\* mean never fires.
C16_AbnormalVolume ==
    call.op = "check_abnormal_volume" =>
        LET n    == Len(call.volumes) - 1
            last == call.volumes[n + 1]
            mean == Mean(call.volumes, n)
            var  == Variance(call.volumes, n)
            gap  == RSub(last, mean)
            z    == call.z_score_threshold
        IN  /\ call.ret <=>
                  /\ n + 1 >= 10
                  /\ var # Zero
                  /\ RGt(gap, Zero)
                  /\ RGt(RMul(gap, gap), RMul(RMul(z, z), var))
            /\ (n + 1 >= 10 /\ RLt(last, mean)) => call.ret = FALSE
            /\ VolumeOn(<<100, 110, 95, 105, 115, 90, 105, 110, 100, 500>>)
                  => call.ret = TRUE
            /\ VolumeOn(<<100, 110, 95, 105, 115, 90, 105, 110, 100, 105>>)
                  => call.ret = FALSE

\* The first nine volumes have mean 310/3 and variance 500/9: 500 lies more
\* than 3 standard deviations above the mean.
C16_Witness ==
    /\ VolumeOn(<<100, 110, 95, 105, 115, 90, 105, 110, 100, 500>>)
    /\ Mean(call.volumes, 9) = Rat(310, 3)
    /\ Variance(call.volumes, 9) = Rat(500, 9)
    /\ call.ret = TRUE

(***************************************************************************)
(* Properties of the OrderManager (checked under SpecOrders, SpecQuoting). *)
(***************************************************************************)
\* The orders of `side` among `orders`.
Resting(orders, side) ==
    { orders[i] : i \in { j \in 1..Len(orders) : orders[j].side = side } }

\* The last update_orders call found at most one order on each side.
OneOrderASide ==
    /\ call.op = "update_orders"
    /\ Cardinality(Resting(call.before, "buy")) <= 1
    /\ Cardinality(Resting(call.before, "sell")) <= 1

\* The positions of the call's requests that cancel order `id`, and of those
\* that create an order of `side`.
CancelsOf(id) ==
    { i \in 1..Len(call.requests) :
        call.requests[i].req = "cancel" /\ call.requests[i].id = id }

CreatesOf(side) ==
    { i \in 1..Len(call.requests) :
        call.requests[i].req = "create" /\ call.requests[i].order.side = side }

\* What the last update_orders call did on `side`, asked to quote `price`
\* there: `cancelled` and `placed` tell that the exchange accepts a cancel
\* request and a placement on that side, `ret` is the order the call
\* returned for it.
SideDecision(side, price, cancelled, placed, ret) ==
    /\ \A o \in Resting(call.before, side) :
          IF RLt(PyAbs(RSub(o.price, price)), RMul(PriceThreshold, o.price))
          THEN /\ CancelsOf(o.id) = {} /\ CreatesOf(side) = {}
               /\ ret = o
               /\ o \in Resting(exchange_orders, side)
          ELSE /\ \E i \in CancelsOf(o.id), j \in CreatesOf(side) :
                    /\ i < j
                    /\ call.requests[j].order.price = price
               /\ cancelled => o \notin Resting(exchange_orders, side)
    /\ Resting(call.before, side) = {}
         => \E j \in CreatesOf(side) : call.requests[j].order.price = price
    /\ (CreatesOf(side) # {} /\ placed)
         => /\ ret \in Resting(exchange_orders, side)
            /\ ret.price = price
            /\ ret.id \notin OrderIds(call.before)

C25_ReturnsCancelledCount ==
    call.op = "cancel_all_orders"
    => /\ call.ret = Len(call.before) - Len(exchange_orders)
       /\ ~call.failed => exchange_orders = <<>>

\* C28: starting with no resting orders, after any sequence of
\* update_orders calls and exchange fills at most one buy order and at most
\* one sell order rest at the exchange, also when a cancel request or a
\* placement fails.
C28_AtMostOneOrderASide ==
    /\ Cardinality(Resting(exchange_orders, "buy")) <= 1
    /\ Cardinality(Resting(exchange_orders, "sell")) <= 1

\* C30: after any sequence of place_limit_order, cancel_order,
\* cancel_all_orders and update_orders calls and exchange fills, every order
\* id tracked in open_orders is an order still open at the exchange, and a
\* failed placement adds no entry.
C30_TrackedOrdersAreOpen ==
    /\ open_orders \subseteq OrderIds(exchange_orders)
    /\ (call.op = "place_limit_order" /\ call.ret = None)
         => open_orders = call.tracked

(***************************************************************************)
(* Properties of the MockExchange (checked under SpecMock).                *)
(***************************************************************************)
\* The funds the open orders of `side` reserve: amount * price of the quote
\* currency for buys, amount of the base currency for sells.
RECURSIVE Reserved(_, _)
Reserved(orders, side) ==
    IF orders = <<>> THEN Zero
    ELSE LET o == Head(orders)
         IN  RAdd(IF o.side # side THEN Zero
                  ELSE IF side = "buy" THEN RMul(o.amount, o.price)
                  ELSE o.amount,
                  Reserved(Tail(orders), side))

\* C29: after any sequence of create_limit_order, cancel_order and fills,
\* every currency's balance satisfies free + used = total, free is never
\* negative, and used equals the funds reserved by the open orders.
C29_BalancesConsistent ==
    /\ \A c \in {exchange_balances.base, exchange_balances.quote} :
          /\ RAdd(c.free, c.used) = c.total
          /\ RGe(c.free, Zero)
    /\ exchange_balances.quote.used = Reserved(exchange_orders, "buy")
    /\ exchange_balances.base.used = Reserved(exchange_orders, "sell")

(***************************************************************************)
(* Properties of market_making_cycle (checked under Spec).                 *)
(***************************************************************************)
Called(name) == \E i \in 1..Len(calls) : calls[i] = name

LastCall == calls[Len(calls)]

Returned(how) == pc = "Sleep" /\ result = how

\* The snapshot of this cycle makes check_all_circuit_breakers return true.
HaltVerdict ==
    /\ ~DataMissing(market_data)
    /\ check_all_circuit_breakers(market_data)

\* C1: when check_all_circuit_breakers returns true the cycle calls
\* cancel_all_orders and ends: no volatility is computed, no balances or
\* ticker are fetched, nothing is priced and update_orders is not called.
C1_HaltCancelsAndEnds ==
    (HaltVerdict /\ pc # "CheckBreakers")
    => /\ Returned("False")
       /\ calls = <<"fetch_ohlcv", "check_all_circuit_breakers",
                    "cancel_all_orders">>
       /\ volatility = None /\ balances = NoPair /\ ticker = NoTicker
       /\ inventory_pct = None /\ model_prices = NoPair
       /\ quote_prices = NoPair

C1_Witness ==
    /\ HaltVerdict
    /\ Returned("False")
    /\ LastCall = "cancel_all_orders"
    /\ next_id > 2
    /\ exchange_orders = <<>>

\* fetch_balances has returned None for the base or the quote balance.
ABalanceIsNone ==
    /\ Called("fetch_balances")
    /\ \E i \in 1..2 : balances[i] = None

\* C2: a missing or empty snapshot, a None balance or a None ticker makes the
\* cycle return False at that step, without raising; no later step runs and
\* update_orders is not called.
C2_MissingDataAborts ==
    /\ (pc # "FetchData" /\ DataMissing(market_data))
         => Returned("False") /\ calls = <<"fetch_ohlcv">>
    /\ ABalanceIsNone
         => /\ Returned("False") /\ LastCall = "fetch_balances"
            /\ ticker = NoTicker
    /\ (Called("fetch_ticker") /\ ticker = NoTicker)
         => /\ Returned("False") /\ LastCall = "fetch_ticker"
            /\ inventory_pct = None
    /\ ( \/ (pc # "FetchData" /\ DataMissing(market_data))
         \/ ABalanceIsNone
         \/ (Called("fetch_ticker") /\ ticker = NoTicker) )
         => ~Called("update_orders") /\ quote_prices = NoPair

C2_Witness ==
    /\ Returned("False")
    /\ balances = <<One, None>>
    /\ calls = <<"fetch_ohlcv", "check_all_circuit_breakers",
                 "get_realized_volatility", "fetch_balances">>

\* The snapshot of this cycle holds fewer than window + 1 bars.
ShortSnapshot ==
    /\ ~DataMissing(market_data)
    /\ Len(market_data.bars) < VolWindow + 1

\* C3: with fewer than window + 1 bars the estimator returns None and the
\* cycle ends at ComputeVolatility: no balances are fetched and update_orders
\* is never called with prices derived from a NaN volatility.
C3_ShortSnapshotAborts ==
    (ShortSnapshot /\ Called("get_realized_volatility"))
    => /\ volatility = None
       /\ Returned("False")
       /\ LastCall = "get_realized_volatility"
       /\ ~Called("fetch_balances")
       /\ ~Called("update_orders")

\* C17: the mid-price is (bid + ask) / 2 when the ticker has a bid and an
\* ask, and the last trade price when either is missing (absent or without a
\* value); the cycle does not fail on a ticker that has a last price.
C17_MidPrice ==
    (Called("fetch_ticker") /\ ticker.k = "ticker" /\ IsNum(ticker.last))
    => /\ ~(LastCall = "fetch_ticker" /\ result = "raised")
       /\ mid_price = IF IsNum(ticker.bid) /\ IsNum(ticker.ask)
                       THEN RDiv(RAdd(ticker.bid, ticker.ask), Int2R(2))
                       ELSE ticker.last

\* A cycle has raised an exception and no user interrupt has arrived.
FailedCycle == result = "raised" /\ shutdown = <<>>

\* main() is about to call market_making_cycle afresh.
NextCycleBegins ==
    /\ shutdown = <<>>
    /\ pc = "FetchData" /\ calls = <<>> /\ result = "none"

\* C18: an exception raised inside a cycle is caught by main(), which sleeps
\* and starts the next cycle: after every failed cycle a next cycle
\* eventually begins, unless the user interrupts.
C18_FailedCycleIsFollowed ==
    FailedCycle ~> (NextCycleBegins \/ shutdown # <<>>)

\* A cycle that failed inside update_orders while orders rest at the
\* exchange, with main() asleep after it.
C18_Witness ==
    /\ FailedCycle
    /\ pc = "Sleep"
    /\ LastCall = "update_orders"
    /\ Len(exchange_orders) > 0

\* main() has returned.
Exited == shutdown # <<>> /\ shutdown[Len(shutdown)].step = "exit"

\* C19: when a user interrupt ends the main loop, at whichever step of a
\* cycle or sleep it arrives, cancel_all_orders is invoked before the
\* process exits.
C19_InterruptCancelsBeforeExit ==
    Exited =>
        /\ shutdown[1].step = "KeyboardInterrupt"
        /\ \E i \in 2..(Len(shutdown) - 1) :
              shutdown[i].step = "cancel_all_orders"

\* An interrupt that arrived mid-cycle, before update_orders, with orders of
\* an earlier cycle resting; the shutdown has cancelled them.
C19_Witness ==
    /\ Exited
    /\ shutdown[1] = [step |-> "KeyboardInterrupt", at |-> "UpdateOrders"]
    /\ shutdown[2] = [step |-> "cancel_all_orders", at |-> "except"]
    /\ next_id > 2
    /\ exchange_orders = <<>>

\* The configuration divides by zero: gamma = 0 (1/gamma in the spreads) or
\* max_inventory_pct <= skew_threshold (the skew factor of adjust_spreads).
Misconfigured ==
    \/ gamma = Zero
    \/ RLe(max_inventory_pct, skew_threshold)

\* C20: a configuration with gamma = 0 or max_inventory_pct <= skew_threshold
\* is rejected at startup: no cycle starts, and no cycle ends in the
\* division by zero of calculate_spreads or adjust_spreads.
C20_MisconfigurationRejected ==
    Misconfigured =>
        /\ calls = <<>>
        /\ ~(result = "raised"
               /\ LastCall \in {"calculate_spreads", "adjust_spreads"})

\* C21: get_realized_volatility leaves the snapshot it is given unchanged:
\* after the call the snapshot has the columns (and values) it had before.
C21_VolatilityLeavesSnapshot ==
    Called("get_realized_volatility") =>
        /\ market_data.columns = OHLCV
        /\ \E md \in Snapshots : market_data = md

\* The snapshot has at least 10 bars and its last close is outside
\* [0.95, 1.05].
OffPeg(md) ==
    /\ md.k # "none"
    /\ Len(md.bars) >= 10
    /\ \/ RLt(md.bars[Len(md.bars)].close, Rat(95, 100))
       \/ RGt(md.bars[Len(md.bars)].close, Rat(105, 100))

\* C27: the depeg check is applied with peg 1.0 to whatever pair is traded:
\* a cycle whose snapshot has at least 10 bars and a last close outside
\* [0.95, 1.05] halts (cancel_all_orders, return False) and never reaches
\* update_orders, and no step taken under such a snapshot places an order.
C27_OffPegNeverQuotes ==
    /\ [](OffPeg(market_data)
            => /\ ~Called("update_orders")
               /\ pc \in {"CheckBreakers", "Sleep"}
               /\ pc = "Sleep" => /\ result = "False"
                                  /\ LastCall = "cancel_all_orders")
    /\ [][OffPeg(market_data)
            => /\ next_id' = next_id
               /\ OrderIds(exchange_orders') \subseteq OrderIds(exchange_orders)]_vars

\* A cycle on a pair priced 10000 has halted.
C27_Witness ==
    /\ OffPeg(market_data)
    /\ market_data.bars[Len(market_data.bars)].close = Int2R(10000)
    /\ Returned("False")
    /\ LastCall = "cancel_all_orders"

\* C26: in every cycle that reaches update_orders with gamma, lambda_b,
\* lambda_a > 0, volatility >= 0, inventory_pct in [-1, 1] and
\* 0 <= skew_threshold < max_inventory_pct, the quotes do not cross:
\* final_bid_price < mid_price < final_ask_price.
C26_QuotesDoNotCross ==
    ( /\ Called("update_orders")
      /\ RGt(gamma, Zero) /\ RGt(lambda_b, Zero) /\ RGt(lambda_a, Zero)
      /\ IsNum(volatility) /\ RGe(volatility, Zero)
      /\ RGe(inventory_pct, RNeg(One)) /\ RLe(inventory_pct, One)
      /\ RGe(skew_threshold, Zero) /\ RLt(skew_threshold, max_inventory_pct) )
    => /\ RLt(quote_prices[1], mid_price)
       /\ RLt(mid_price, quote_prices[2])

\* A quote-heavy cycle: the bid is narrowed towards the mid price and the ask
\* is moved away from it, and both stay on their side.
C26_Witness ==
    /\ Called("update_orders")
    /\ RGt(gamma, Zero) /\ RLt(skew_threshold, max_inventory_pct)
    /\ IsNum(volatility) /\ RGt(volatility, Zero)
    /\ RLt(inventory_pct, RNeg(skew_threshold))
    /\ RGt(quote_prices[1], model_prices[1])
    /\ RGt(quote_prices[2], model_prices[2])
    /\ RLt(quote_prices[1], mid_price) /\ RLt(mid_price, quote_prices[2])

\* C9: the prices handed to update_orders are mid_price -/+ the spreads that
\* adjust_spreads returns for the raw model spreads and the inventory_pct of
\* this cycle; where the adjustment changes a spread, the raw model price is
\* not the one handed over.
C9_QuotesFromAdjustedSpreads ==
    Called("update_orders")
    => LET raw_bid == RSub(mid_price, model_prices[1])
           raw_ask == RSub(model_prices[2], mid_price)
           adj == adjust_spreads(raw_bid, raw_ask, inventory_pct,
                                 current_inventory, max_inventory_pct,
                                 skew_threshold)
       IN  /\ inventory_pct = InventoryOf(balances[1], balances[2], mid_price)
           /\ adj.k = "ok"
           /\ quote_prices[1] = RSub(mid_price, adj.bid)
           /\ quote_prices[2] = RAdd(mid_price, adj.ask)
           /\ adj.bid # raw_bid => quote_prices[1] # model_prices[1]
           /\ adj.ask # raw_ask => quote_prices[2] # model_prices[2]

C9_Witness ==
    /\ Called("update_orders")
    /\ Returned("True")
    /\ IsNum(quote_prices[1]) /\ IsNum(quote_prices[2])
    /\ RLt(quote_prices[1], model_prices[1])
    /\ RLt(quote_prices[2], model_prices[2])
    /\ \E i \in 1..Len(exchange_orders) :
          /\ exchange_orders[i].side = "sell"
          /\ exchange_orders[i].price = quote_prices[2]

=============================================================================
